---- MODULE Spec2Model ----
(***************************************************************************)
(* simple-json-database (src/index.js): a key-value store whose in-memory  *)
(* mirror (this.data) is synchronised with one JSON file, with a           *)
(* process-wide registry of instances (const instances = {}).              *)
(*                                                                         *)
(* The first part models the JavaScript values the store handles and the   *)
(* language operations the source applies to them: property assignment,    *)
(* lookup, delete, Object.keys, hasOwnProperty, JSON.stringify and         *)
(* JSON.parse.  The second part models the file system and the Database    *)
(* class, one action per method.                                           *)
(***************************************************************************)
EXTENDS Integers, Sequences, FiniteSets, TLC

(***************************************************************************)
(* JavaScript values.  Every value is a record with a type tag t.  Objects *)
(* and arrays carry their own properties in property order (props), their  *)
(* prototype (proto) and, for arrays, their length (len).                  *)
(***************************************************************************)
Undefined == [t |-> "undefined"]
Null == [t |-> "null"]
Num(n) == [t |-> "number", n |-> n]
Str(s) == [t |-> "string", s |-> s]
ObjectPrototype == [t |-> "builtin", name |-> "Object.prototype"]
ArrayPrototype == [t |-> "builtin", name |-> "Array.prototype"]
Prop(k, v) == [k |-> k, v |-> v]
Obj(props) == [t |-> "object", props |-> props, proto |-> ObjectPrototype, len |-> 0]
EmptyObject == Obj(<<>>)

\* The canonical decimal strings of the array indices 0, 1, 2: the keys that
\* JavaScript treats as integer keys (ordered first, ascending) and as array
\* elements.  IndexStr[i + 1] is String(i).
IndexStr == <<"0", "1", "2">>
IsIntKey(k) == \E i \in 1..Len(IndexStr) : IndexStr[i] = k
KeyIndex(k) == (CHOOSE i \in 1..Len(IndexStr) : IndexStr[i] = k) - 1

\* typeof v === "object" (true of null and of arrays)
TypeofObject(v) == v.t \in {"object", "array", "null", "builtin"}
\* v can carry properties: reading or writing a property of undefined or null
\* throws a TypeError
IsObjectLike(v) == v.t \in {"object", "array", "builtin"}
Max(a, b) == IF a >= b THEN a ELSE b

OwnIdx(o, k) ==
  IF \E i \in 1..Len(o.props) : o.props[i].k = k
  THEN CHOOSE i \in 1..Len(o.props) : o.props[i].k = k
  ELSE 0

\* Object.prototype.hasOwnProperty.call(o, k), o an object or an array
HasOwnProperty(o, k) == OwnIdx(o, k) # 0

\* [[DefineOwnProperty]] of a data property: an existing key keeps its place,
\* a new integer key goes among the integer keys in ascending order, any other
\* new key goes last; an array grows to hold a new index.
DefineOwn(o, k, v) ==
  LET i == OwnIdx(o, k) IN
  IF i # 0 THEN [o EXCEPT !.props[i].v = v]
  ELSE IF IsIntKey(k)
  THEN LET before == Cardinality({j \in 1..Len(o.props) :
                        IsIntKey(o.props[j].k) /\ KeyIndex(o.props[j].k) < KeyIndex(k)})
       IN [o EXCEPT !.props = SubSeq(o.props, 1, before) \o <<Prop(k, v)>>
                                \o SubSeq(o.props, before + 1, Len(o.props)),
                    !.len = IF o.t = "array" THEN Max(o.len, KeyIndex(k) + 1) ELSE o.len]
  ELSE [o EXCEPT !.props = Append(o.props, Prop(k, v))]

\* Where a lookup of k from o ends on the prototype chain: at a data property
\* (with its value), at the __proto__ accessor of Object.prototype, or nowhere.
RECURSIVE ChainFind(_, _)
ChainFind(o, k) ==
  IF HasOwnProperty(o, k) THEN [found |-> "data", v |-> o.props[OwnIdx(o, k)].v]
  ELSE IF o.proto.t = "null" THEN [found |-> "none", v |-> Undefined]
  ELSE IF o.proto.t = "builtin"
       THEN IF k = "__proto__" THEN [found |-> "accessor", v |-> Undefined]
            ELSE [found |-> "none", v |-> Undefined]
  ELSE ChainFind(o.proto, k)

\* o[k], o an object or an array
GetValue(o, k) ==
  LET f == ChainFind(o, k) IN
  IF f.found = "accessor" THEN o.proto ELSE f.v

\* o[k] = v, o an object or an array.  The __proto__ accessor replaces the
\* prototype when v is an object or null and ignores every other value.
PutValue(o, k, v) ==
  IF ChainFind(o, k).found = "accessor"
  THEN IF TypeofObject(v) THEN [o EXCEPT !.proto = v] ELSE o
  ELSE DefineOwn(o, k, v)

\* delete o[k]: an array keeps its length (the element becomes a hole)
DeleteValue(o, k) ==
  LET i == OwnIdx(o, k) IN
  IF i = 0 THEN o
  ELSE [o EXCEPT !.props = SubSeq(o.props, 1, i - 1) \o SubSeq(o.props, i + 1, Len(o.props))]

\* Object.keys(o) and Object.values(o)
ObjectKeys(o) == [i \in 1..Len(o.props) |-> o.props[i].k]
ObjectValues(o) == [i \in 1..Len(o.props) |-> o.props[i].v]

(***************************************************************************)
(* JSON.  A document is what a JSON text denotes: null, a number, a string,*)
(* an object (members in text order) or an array.  A file's content is a   *)
(* JSON text (a document and its indent width), a text that is not JSON,   *)
(* or nothing (the file does not exist).                                   *)
(***************************************************************************)
NoDoc == [d |-> "none"]
NullDoc == [d |-> "null"]
NumDoc(n) == [d |-> "number", n |-> n]
StrDoc(s) == [d |-> "string", s |-> s]
ObjDoc(members) == [d |-> "object", members |-> members]
ArrDoc(items) == [d |-> "array", items |-> items]
Member(k, doc) == [k |-> k, doc |-> doc]

\* What JSON.stringify serialises v to: nothing for undefined, the own
\* properties of an object without those whose value serialises to nothing,
\* the elements of an array with null for holes and undefined.
RECURSIVE SerDoc(_)
SerDoc(v) ==
  CASE v.t = "undefined" -> NoDoc
    [] v.t = "null" -> NullDoc
    [] v.t = "number" -> NumDoc(v.n)
    [] v.t = "string" -> StrDoc(v.s)
    [] v.t = "builtin" -> ObjDoc(<<>>)
    [] v.t = "array" ->
         ArrDoc([i \in 1..v.len |->
           LET j == OwnIdx(v, IndexStr[i]) IN
           IF j = 0 THEN NullDoc
           ELSE LET e == SerDoc(v.props[j].v) IN IF e.d = "none" THEN NullDoc ELSE e])
    [] v.t = "object" ->
         LET Kept(p) == SerDoc(p.v).d # "none"
             kept == SelectSeq(v.props, Kept)
         IN ObjDoc([i \in 1..Len(kept) |-> Member(kept[i].k, SerDoc(kept[i].v))])

\* Whether the indent width shows in the text: only a non-empty object or
\* array is broken over lines.
Breaks(doc) ==
  \/ doc.d = "object" /\ Len(doc.members) > 0
  \/ doc.d = "array" /\ Len(doc.items) > 0

NoFile == [kind |-> "absent"]
RawText(s) == [kind |-> "raw", text |-> s]
JsonText(doc, indent) ==
  [kind |-> "json", doc |-> doc, indent |-> IF Breaks(doc) THEN indent ELSE 0]
\* the value undefined where a text is expected
NoText == [kind |-> "undefined"]

\* JSON.stringify(v, null, indent): undefined when v serialises to nothing
JsonStringify(v, indent) ==
  IF SerDoc(v).d = "none" THEN NoText ELSE JsonText(SerDoc(v), indent)

\* The value JSON.parse builds from a document: objects get their members as
\* own properties (also a member named __proto__), defined in text order.
RECURSIVE ParseDoc(_)
RECURSIVE ParseMembers(_, _, _)
ParseMembers(members, i, acc) ==
  IF i > Len(members) THEN acc
  ELSE ParseMembers(members, i + 1, DefineOwn(acc, members[i].k, ParseDoc(members[i].doc)))
ParseDoc(doc) ==
  CASE doc.d = "null" -> Null
    [] doc.d = "number" -> Num(doc.n)
    [] doc.d = "string" -> Str(doc.s)
    [] doc.d = "object" -> ParseMembers(doc.members, 1, EmptyObject)
    [] doc.d = "array" ->
         [t |-> "array",
          props |-> [i \in 1..Len(doc.items) |-> Prop(IndexStr[i], ParseDoc(doc.items[i]))],
          proto |-> ArrayPrototype,
          len |-> Len(doc.items)]

\* JSON.parse(text): a SyntaxError when the text is not JSON
JsonParse(text) ==
  IF text.kind = "json" THEN [st |-> "ok", v |-> ParseDoc(text.doc)]
  ELSE [st |-> "SyntaxError", v |-> Undefined]


(***************************************************************************)
(* The inputs the callers draw from.                                       *)
(***************************************************************************)
MaxNum == 2
MaxTime == 1

ObjV == Obj(<<Prop("a", Num(1))>>)
ArrV == [t |-> "array", props |-> <<Prop("0", Num(1))>>, proto |-> ArrayPrototype, len |-> 1]
Times == 1..MaxTime

\* options.snapshots; an options object without snapshots reads as disabled
Snapshots(enabled, path, interval) ==
  [enabled |-> enabled, path |-> path, interval |-> interval]
Options(snapshots, forceNew, indented) ==
  [snapshots |-> snapshots, forceNew |-> forceNew, indented |-> indented]
NoSnapshots == Snapshots(FALSE, "", Undefined)
\* new Database(path) and new Database(path, {})
DefaultOptions == Options(NoSnapshots, FALSE, FALSE)
OptionChoices ==
  { DefaultOptions,
    Options(NoSnapshots, TRUE, TRUE),
    Options(Snapshots(TRUE, "snaps", Num(5000)), FALSE, FALSE),
    Options(Snapshots(TRUE, "", Num(5000)), FALSE, FALSE),
    Options(Snapshots(TRUE, "snaps", Undefined), FALSE, FALSE) }

\* What the backing file may hold before the program starts and what another
\* process may leave in it.
MappingText == JsonText(ObjDoc(<<Member("a", NumDoc(1))>>), 0)
NestedText ==
  JsonText(ObjDoc(<<Member("b", ObjDoc(<<Member("a", NumDoc(1))>>)), Member("a", NullDoc)>>), 0)
ArrayText == JsonText(ArrDoc(<<>>), 0)
NullText == JsonText(NullDoc, 0)
NumberText == JsonText(NumDoc(1), 0)
StringText == JsonText(StrDoc("s"), 0)
BrokenText == RawText("{")

\* A scope is what the callers of one run draw their arguments from: the file
\* paths ("" stands for a missing or empty path), the options, the keys, the
\* values, the texts found in the backing file, and the snapshot folders.
Scope(paths, options, keys, values, texts, folders) ==
  [paths |-> paths, options |-> options, keys |-> keys, values |-> values,
   texts |-> texts, folders |-> folders]
RegistryScope ==
  Scope({"db.json", ""}, OptionChoices, {"a"}, {Num(1)},
        {MappingText, NumberText, BrokenText}, {"snaps"})
ValueScope ==
  Scope({"db.json"}, {DefaultOptions}, {"a", "b"}, {Undefined, Null, Num(1), ObjV},
        {MappingText, NestedText, ArrayText, NullText, NumberText, StringText, BrokenText}, {})
\* (here another process may also remove the backing file)
IntegerKeyScope ==
  Scope({"db.json"}, {DefaultOptions}, {"a", "1"}, {Null, Num(1)}, {MappingText, NoFile}, {})
ProtoKeyScope ==
  Scope({"db.json"}, {DefaultOptions}, {"a", "__proto__"}, {Null, Num(1), ObjV},
        {MappingText}, {})
\* two spellings of the path of the one backing file
AliasScope ==
  Scope({"db.json", "./db.json"}, {DefaultOptions}, {"a"}, {Num(1)}, {MappingText}, {})
ScopeNames == {"registry", "values", "integer keys", "proto key", "aliases"}
ScopeNamed(name) ==
  CASE name = "registry" -> RegistryScope
    [] name = "values" -> ValueScope
    [] name = "integer keys" -> IntegerKeyScope
    [] name = "proto key" -> ProtoKeyScope
    [] name = "aliases" -> AliasScope

(***************************************************************************)
(* The program state.                                                      *)
(***************************************************************************)
VARIABLES
  instances,  \* the registry: file path -> index of its Database in stores, 0 for none
  stores,     \* every Database object built so far
  refs,       \* what the constructor calls returned: <<path, forceNew, store>>
  file,       \* the content of the backing file
  dirs,       \* the snapshot directories that exist
  snapFiles,  \* the snapshot files: [name, content]
  timers,     \* the running setInterval timers: [s, path]
  crashed,    \* an exception escaped a timer callback and ended the process
  last,       \* the last call and how it ended
  scope,      \* the name of the scope the callers of this run draw from
  batch       \* the two runs compared by SpecBatch

vars == <<instances, stores, refs, file, dirs, snapFiles, timers, crashed, last, scope, batch>>
mainVars == <<instances, stores, refs, file, dirs, snapFiles, timers, crashed, last, scope>>

\* A record of a call: its name, the Database it was made on (0 for none), its
\* key argument ("" for none), the path and options given to a constructor,
\* and how it ended: "ok" or the error thrown.
Called(op, s, k, p, o, st) == [op |-> op, s |-> s, k |-> k, p |-> p, o |-> o, st |-> st]
Held == {r[3] : r \in refs}

(***************************************************************************)
(* The methods of Database as functions of this.data (d) and the backing   *)
(* file (f).  Each gives the outcomes the call can have: how it ends (st), *)
(* this.data and the file afterwards, and the number of file writes.       *)
(***************************************************************************)
IndentWidth == 2
Outcome(st, d, f, w) == [st |-> st, data |-> d, file |-> f, writes |-> w]

\* fs.writeFileSync(path, text).  Without a text (undefined) the call throws
\* on runtimes that validate the argument and writes "undefined" on those
\* that convert it to a string.
writeFileSync(f, text) ==
  IF text.kind = "undefined"
  THEN {[st |-> "TypeError", file |-> f, writes |-> 0],
        [st |-> "ok", file |-> RawText("undefined"), writes |-> 1]}
  ELSE {[st |-> "ok", file |-> text, writes |-> 1]}

\* A load that empties this.data when it fails.
fetchDataFromFileClearing(d, f) ==
  IF f.kind = "absent" THEN {Outcome("IOError", EmptyObject, f, 0)}
  ELSE LET savedData == JsonParse(f) IN
       IF savedData.st # "ok" THEN {Outcome("SyntaxError", EmptyObject, f, 0)}
       ELSE IF TypeofObject(savedData.v) THEN {Outcome("ok", savedData.v, f, 0)}
       ELSE {Outcome("FormatError", EmptyObject, f, 0)}
fetchDataFromFile(d, f) ==
  IF f.kind = "absent" THEN {Outcome("IOError", d, f, 0)}
  ELSE LET savedData == JsonParse(f) IN
       IF savedData.st # "ok" THEN {Outcome("SyntaxError", d, f, 0)}
       ELSE IF TypeofObject(savedData.v) THEN {Outcome("ok", savedData.v, f, 0)}
       ELSE {Outcome("FormatError", d, f, 0)}

saveDataToFile(d, f) ==
  {Outcome(w.st, d, w.file, w.writes) : w \in writeFileSync(f, JsonStringify(d, IndentWidth))}

\* A setLocal that writes the file as set does.
setLocalSaving(d, f, k, v) ==
  IF IsObjectLike(d) THEN saveDataToFile(PutValue(d, k, v), f)
  ELSE {Outcome("TypeError", d, f, 0)}
setLocal(d, f, k, v) ==
  IF IsObjectLike(d) THEN {Outcome("ok", PutValue(d, k, v), f, 0)}
  ELSE {Outcome("TypeError", d, f, 0)}

\* A set that leaves the file alone.
setUnsaved(d, f, k, v) ==
  IF IsObjectLike(d) THEN {Outcome("ok", PutValue(d, k, v), f, 0)}
  ELSE {Outcome("TypeError", d, f, 0)}
set(d, f, k, v) ==
  IF IsObjectLike(d) THEN saveDataToFile(PutValue(d, k, v), f)
  ELSE {Outcome("TypeError", d, f, 0)}

\* get(key): the value, or a TypeError when this.data is undefined or null
get(d, k) ==
  IF IsObjectLike(d) THEN [st |-> "ok", v |-> GetValue(d, k)]
  ELSE [st |-> "TypeError", v |-> Undefined]

\* The callback of the README's examples, (x) => (x || 0) + 1, on undefined,
\* null, numbers and objects with the ordinary toString (x + 1 is then the
\* string "[object Object]1").
InCallbackDomain(v) == v.t \in {"undefined", "null", "number", "object", "builtin"}
Callback(v) ==
  CASE v.t = "number" /\ v.n # 0 -> Num(v.n + 1)
    [] v.t \in {"object", "builtin"} -> Str("[object Object]1")
    [] OTHER -> Num(1)

update(d, f, k) ==
  IF get(d, k).st # "ok" THEN {Outcome("TypeError", d, f, 0)}
  ELSE set(d, f, k, Callback(get(d, k).v))

updateLocal(d, f, k) ==
  IF get(d, k).st # "ok" THEN {Outcome("TypeError", d, f, 0)}
  ELSE setLocal(d, f, k, Callback(get(d, k).v))

deleteLocal(d, f, k) ==
  IF IsObjectLike(d) THEN {Outcome("ok", DeleteValue(d, k), f, 0)}
  ELSE {Outcome("TypeError", d, f, 0)}

\* A delete that leaves the file alone.
deleteUnsaved(d, f, k) ==
  IF IsObjectLike(d) THEN {Outcome("ok", DeleteValue(d, k), f, 0)}
  ELSE {Outcome("TypeError", d, f, 0)}
delete(d, f, k) ==
  IF IsObjectLike(d) THEN saveDataToFile(DeleteValue(d, k), f)
  ELSE {Outcome("TypeError", d, f, 0)}

deleteAll(d, f) == saveDataToFile(EmptyObject, f)
deleteAllLocal(d, f) == {Outcome("ok", EmptyObject, f, 0)}

has(d, k) ==
  IF IsObjectLike(d) THEN [st |-> "ok", v |-> HasOwnProperty(d, k)]
  ELSE [st |-> "TypeError", v |-> FALSE]

\* array(outputType): a TypeError when this.data is undefined or null
Entry(k, v) == [key |-> k, value |-> v]
array(d, outputType) ==
  IF ~IsObjectLike(d) THEN [st |-> "TypeError", v |-> <<>>]
  ELSE CASE outputType = "keys" -> [st |-> "ok", v |-> ObjectKeys(d)]
         [] outputType = "values" -> [st |-> "ok", v |-> ObjectValues(d)]
         [] OTHER -> [st |-> "ok",
                      v |-> [i \in 1..Len(ObjectKeys(d)) |->
                               Entry(ObjectKeys(d)[i], GetValue(d, ObjectKeys(d)[i]))]]
OutputTypes == {"keys", "values", "null"}

(***************************************************************************)
(* The calls.  A call on a Database needs a reference to it, which only a  *)
(* constructor call that returned can give.                                *)
(***************************************************************************)
Store(path, options, data) == [jsonFilePath |-> path, options |-> options, data |-> data]
NoBatch == [pc |-> "off"]

Sc == ScopeNamed(scope)
Call(op, s, k, st) == Called(op, s, k, "", DefaultOptions, st)
New(p, o, s, st) == Called("new", s, "", p, o, st)

\* A method call on Database s with the outcomes outs
Apply(op, s, k, outs) ==
  /\ ~crashed
  /\ s \in Held
  /\ \E o \in outs :
       /\ stores' = [stores EXCEPT ![s].data = o.data]
       /\ file' = o.file
       /\ last' = Call(op, s, k, o.st)
  /\ UNCHANGED <<instances, refs, dirs, snapFiles, timers, crashed, scope, batch>>

\* path.basename(jsonFilePath) without its last extension
DatabaseName(path) == CASE path = "db.json" -> "db" [] path = "./db.json" -> "db"
SnapshotName(folderPath, path, now) ==
  [dir |-> folderPath, name |-> <<"snapshot", DatabaseName(path), now, "json">>]

\* makeSnapshot(folderPath) at time now: the directories and snapshot files
\* afterwards.  The file is written without a content.
makeSnapshot(path, folderPath, now) ==
  { [st |-> w.st,
     dirs |-> dirs \cup {folderPath},
     snapFiles |-> IF w.st = "ok"
                   THEN {sf \in snapFiles : sf.name # SnapshotName(folderPath, path, now)}
                        \cup {[name |-> SnapshotName(folderPath, path, now), content |-> w.file]}
                   ELSE snapFiles]
    : w \in writeFileSync(NoFile, NoText) }

\* A constructor that never finds the path in the registry.
RegisteredNever(p) == FALSE
\* if (instances[filePath])
Registered(p) == instances[p] # 0

\* A return of the registered Database that takes the options of this call.
ReturnExistingWithOptions(p, o) ==
  /\ refs' = refs \cup {<<p, o.forceNew, instances[p]>>}
  /\ last' = New(p, o, instances[p], "ok")
  /\ stores' = [stores EXCEPT ![instances[p]].options = o]
  /\ UNCHANGED <<instances, file, dirs, timers>>
\* A return of the registered Database that loads the backing file again.
ReturnExistingReloaded(p, o) ==
  /\ refs' = refs \cup {<<p, o.forceNew, instances[p]>>}
  /\ last' = New(p, o, instances[p], "ok")
  /\ stores' = [stores EXCEPT ![instances[p]].data =
                  IF file.kind = "absent" THEN EmptyObject
                  ELSE (CHOOSE r \in fetchDataFromFile(@, file) : TRUE).data]
  /\ UNCHANGED <<instances, file, dirs, timers>>
\* return instances[filePath]: the constructor ends before it reads options
ReturnExisting(p, o) ==
  /\ refs' = refs \cup {<<p, o.forceNew, instances[p]>>}
  /\ last' = New(p, o, instances[p], "ok")
  /\ UNCHANGED <<instances, stores, file, dirs, timers>>

\* new Database(path, options), up to its return or its throw
Construct(p, o) ==
  /\ ~crashed
  /\ IF p = "" THEN
       /\ last' = New(p, o, 0, "InvalidArgument")
       /\ UNCHANGED <<instances, stores, refs, file, dirs, timers>>
     ELSE IF Registered(p) THEN ReturnExisting(p, o)
     ELSE
       LET this == Len(stores) + 1
           snaps == o.snapshots
           badSnapshots == snaps.enabled /\ (snaps.path = "" \/ snaps.interval.t # "number")
           loaded == IF file.kind = "absent"
                     THEN Outcome("ok", EmptyObject, JsonText(ObjDoc(<<>>), 0), 1)
                     ELSE CHOOSE r \in fetchDataFromFile(EmptyObject, file) : TRUE
       IN
       /\ instances' = [instances EXCEPT ![p] = this]
       /\ IF badSnapshots THEN
            /\ stores' = Append(stores, Store(p, o, Undefined))
            /\ last' = New(p, o, 0, "InvalidArgument")
            /\ UNCHANGED <<refs, file, dirs, timers>>
          ELSE
            /\ dirs' = IF snaps.enabled THEN dirs \cup {snaps.path} ELSE dirs
            /\ timers' = IF snaps.enabled THEN timers \cup {[s |-> this, path |-> snaps.path]}
                         ELSE timers
            /\ stores' = Append(stores, Store(p, o, loaded.data))
            /\ file' = loaded.file
            /\ refs' = IF loaded.st = "ok" THEN refs \cup {<<p, o.forceNew, this>>} ELSE refs
            /\ last' = New(p, o, IF loaded.st = "ok" THEN this ELSE 0, loaded.st)
  /\ UNCHANGED <<snapFiles, crashed, scope, batch>>

FetchDataFromFile(s) == Apply("fetchDataFromFile", s, "", fetchDataFromFile(stores[s].data, file))
SaveDataToFile(s) == Apply("saveDataToFile", s, "", saveDataToFile(stores[s].data, file))
Get(s, k) == Apply("get", s, k, {Outcome(get(stores[s].data, k).st, stores[s].data, file, 0)})
Set(s, k, v) == Apply("set", s, k, set(stores[s].data, file, k, v))
SetLocal(s, k, v) == Apply("setLocal", s, k, setLocal(stores[s].data, file, k, v))
\* The callback is applied to the values of its domain, up to MaxNum.
CanUpdate(s, k) ==
  get(stores[s].data, k).st = "ok" =>
    /\ InCallbackDomain(get(stores[s].data, k).v)
    /\ Callback(get(stores[s].data, k).v).t = "number" =>
         Callback(get(stores[s].data, k).v).n <= MaxNum
Update(s, k) == CanUpdate(s, k) /\ Apply("update", s, k, update(stores[s].data, file, k))
UpdateLocal(s, k) == CanUpdate(s, k) /\ Apply("updateLocal", s, k, updateLocal(stores[s].data, file, k))
Delete(s, k) == Apply("delete", s, k, delete(stores[s].data, file, k))
DeleteLocal(s, k) == Apply("deleteLocal", s, k, deleteLocal(stores[s].data, file, k))
DeleteAll(s) == Apply("deleteAll", s, "", deleteAll(stores[s].data, file))
DeleteAllLocal(s) == Apply("deleteAllLocal", s, "", deleteAllLocal(stores[s].data, file))
Has(s, k) == Apply("has", s, k, {Outcome(has(stores[s].data, k).st, stores[s].data, file, 0)})
Array(s, outputType) ==
  Apply("array", s, "", {Outcome(array(stores[s].data, outputType).st, stores[s].data, file, 0)})

\* db.makeSnapshot(folderPath) called by the application
MakeSnapshot(s, folderPath, now) ==
  /\ ~crashed
  /\ s \in Held
  /\ \E o \in makeSnapshot(stores[s].jsonFilePath, folderPath, now) :
       /\ dirs' = o.dirs
       /\ snapFiles' = o.snapFiles
       /\ last' = Call("makeSnapshot", s, "", o.st)
  /\ UNCHANGED <<instances, stores, refs, file, timers, crashed, scope, batch>>

\* The setInterval callback of timer t runs at time now.  Nothing catches
\* what it throws: an exception ends the process.
TimerFires(t, now) ==
  /\ ~crashed
  /\ t \in timers
  /\ \E o \in makeSnapshot(stores[t.s].jsonFilePath, t.path, now) :
       /\ dirs' = o.dirs
       /\ snapFiles' = o.snapFiles
       /\ crashed' = (o.st # "ok")
       /\ last' = Call("timer", t.s, "", o.st)
  /\ UNCHANGED <<instances, stores, refs, file, timers, scope, batch>>

\* Another process replaces the backing file's content.
ExternalWrite(text) ==
  /\ ~crashed
  /\ file # text
  /\ file' = text
  /\ last' = Call("external", 0, "", "ok")
  /\ UNCHANGED <<instances, stores, refs, dirs, snapFiles, timers, crashed, scope, batch>>

Stores == 1..Len(stores)

AllPaths == {"db.json", "./db.json"}

Init ==
  /\ scope \in ScopeNames
  /\ instances = [p \in AllPaths |-> 0]
  /\ stores = <<>>
  /\ refs = {}
  /\ file \in {NoFile} \cup Sc.texts
  /\ dirs = {}
  /\ snapFiles = {}
  /\ timers = {}
  /\ crashed = FALSE
  /\ last = Call("start", 0, "", "ok")
  /\ batch = NoBatch

Next ==
  \/ \E p \in Sc.paths, o \in Sc.options : Construct(p, o)
  \/ \E s \in Stores : FetchDataFromFile(s)
  \/ \E s \in Stores : SaveDataToFile(s)
  \/ \E s \in Stores, k \in Sc.keys : Get(s, k)
  \/ \E s \in Stores, k \in Sc.keys, v \in Sc.values : Set(s, k, v)
  \/ \E s \in Stores, k \in Sc.keys, v \in Sc.values : SetLocal(s, k, v)
  \/ \E s \in Stores, k \in Sc.keys : Update(s, k)
  \/ \E s \in Stores, k \in Sc.keys : UpdateLocal(s, k)
  \/ \E s \in Stores, k \in Sc.keys : Delete(s, k)
  \/ \E s \in Stores, k \in Sc.keys : DeleteLocal(s, k)
  \/ \E s \in Stores : DeleteAll(s)
  \/ \E s \in Stores : DeleteAllLocal(s)
  \/ \E s \in Stores, k \in Sc.keys : Has(s, k)
  \/ \E s \in Stores, t \in OutputTypes : Array(s, t)
  \/ \E s \in Stores, dir \in Sc.folders, now \in Times : MakeSnapshot(s, dir, now)
  \/ \E t \in timers, now \in Times : TimerFires(t, now)
  \/ \E text \in Sc.texts : ExternalWrite(text)

Spec == Init /\ [][Next]_vars

(***************************************************************************)
(* Two runs side by side, from the state a constructor call leaves: the    *)
(* deferred run calls setLocal for each entry of a list, then              *)
(* saveDataToFile, then fetchDataFromFile; the immediate run calls set for *)
(* each entry.  Each run has its own Database and backing file and counts  *)
(* the writes of its file.                                                 *)
(***************************************************************************)
MaxBatch == 2
BatchKeys == {"a", "b", "1", "__proto__"}
BatchValues == {Undefined, Null, Num(1), Str("s"), ObjV, ArrV}
BatchTexts == {NoFile, MappingText, NestedText, ArrayText, NullText}
BatchEntries == {Prop(k, v) : k \in BatchKeys, v \in BatchValues}
\* the lists of 1..MaxBatch entries on distinct keys, in every order
BatchLists ==
  UNION { {q \in [1..n -> BatchEntries] : \A i, j \in 1..n : i # j => q[i].k # q[j].k}
          : n \in 1..MaxBatch }

World(d, f, w) == [data |-> d, file |-> f, writes |-> w]
After(world, o) == World(o.data, o.file, world.writes + o.writes)
\* what the constructor leaves of a backing file text: the mirror and the file
Constructed(text) ==
  IF text.kind = "absent" THEN World(EmptyObject, JsonText(ObjDoc(<<>>), 0), 0)
  ELSE LET r == CHOOSE r \in fetchDataFromFile(EmptyObject, text) : TRUE
       IN World(r.data, r.file, 0)

InitBatch ==
  /\ scope = "registry"
  /\ instances = [p \in AllPaths |-> 0]
  /\ stores = <<>>
  /\ refs = {}
  /\ file = NoFile
  /\ dirs = {}
  /\ snapFiles = {}
  /\ timers = {}
  /\ crashed = FALSE
  /\ last = Call("start", 0, "", "ok")
  /\ \E text \in BatchTexts, q \in BatchLists :
       batch = [pc |-> "edit", todo |-> q, n |-> Len(q),
                deferred |-> Constructed(text), immediate |-> Constructed(text),
                saved |-> Undefined, loaded |-> "none"]

\* the next entry: setLocal in the deferred run, set in the immediate run
BatchEdit ==
  /\ batch.pc = "edit"
  /\ batch.todo # <<>>
  /\ LET e == Head(batch.todo) IN
     \E l \in setLocal(batch.deferred.data, batch.deferred.file, e.k, e.v),
        i \in set(batch.immediate.data, batch.immediate.file, e.k, e.v) :
       batch' = [batch EXCEPT !.todo = Tail(batch.todo),
                              !.deferred = After(batch.deferred, l),
                              !.immediate = After(batch.immediate, i),
                              !.pc = IF l.st = "ok" /\ i.st = "ok" THEN "edit" ELSE "threw"]
  /\ UNCHANGED mainVars

\* saveDataToFile() in the deferred run
BatchSave ==
  /\ batch.pc = "edit"
  /\ batch.todo = <<>>
  /\ \E o \in saveDataToFile(batch.deferred.data, batch.deferred.file) :
       batch' = [batch EXCEPT !.deferred = After(batch.deferred, o),
                              !.saved = batch.deferred.data,
                              !.pc = IF o.st = "ok" THEN "saved" ELSE "threw"]
  /\ UNCHANGED mainVars

\* fetchDataFromFile() in the deferred run
BatchLoad ==
  /\ batch.pc = "saved"
  /\ \E o \in fetchDataFromFile(batch.deferred.data, batch.deferred.file) :
       batch' = [batch EXCEPT !.deferred = After(batch.deferred, o),
                              !.loaded = o.st,
                              !.pc = "loaded"]
  /\ UNCHANGED mainVars

NextBatch == BatchEdit \/ BatchSave \/ BatchLoad
SpecBatch == InitBatch /\ [][NextBatch]_vars

(***************************************************************************)
(* Properties.                                                             *)
(***************************************************************************)
Data(s) == stores[s].data
ImmediateCalls == {"set", "update", "delete", "deleteAll"}
DeferredCalls == {"setLocal", "updateLocal", "deleteLocal", "deleteAllLocal"}
ReadCalls == {"get", "has", "array"}
\* the last call was op, on a Database, and returned
Returned(ops) == last.op \in ops /\ last.st = "ok" /\ last.s \in Stores

\* C1: every constructor call for a path that did not ask for an independent
\* instance returned the one Database registered for that path, so get, has
\* and array through any two such references give the same answers, and no
\* path ever has more than one Database.
C1_SharedInstance ==
  /\ \A r1, r2 \in refs :
       (r1[1] = r2[1] /\ ~r1[2] /\ ~r2[2]) =>
         /\ r1[3] = r2[3]
         /\ \A k \in Sc.keys : get(Data(r1[3]), k) = get(Data(r2[3]), k)
         /\ \A k \in Sc.keys : has(Data(r1[3]), k) = has(Data(r2[3]), k)
         /\ \A t \in OutputTypes : array(Data(r1[3]), t) = array(Data(r2[3]), t)
  /\ \A r \in refs : ~r[2] => instances[r[1]] = r[3]
  /\ \A p \in AllPaths : Cardinality({s \in Stores : stores[s].jsonFilePath = p}) <= 1

\* C1 witness: a constructor call without forceNew has just returned a Database
\* whose mirror holds a = 2, a value only an earlier update through another
\* reference can have stored, and no reference came from a forceNew call.
C1_Witness ==
  /\ Returned({"new"})
  /\ refs = {<<last.p, FALSE, last.s>>}
  /\ get(Data(last.s), "a").v = Num(2)
  /\ JsonStringify(Data(last.s), IndentWidth) # file

\* C2: a constructor call with forceNew returns a Database that carries the
\* options of this call and that no call without forceNew has returned.
C2_ForceNewIndependent ==
  (Returned({"new"}) /\ last.o.forceNew) =>
    /\ stores[last.s].options = last.o
    /\ \A r \in refs : r[3] = last.s => r[2]

\* C3 as claimed: a deferred variant or a read leaves the backing file as it
\* was, and of the program's own steps only a save or an immediate variant
\* changes the backing file.
C3_OnlySaveWrites ==
  [][ /\ last'.op \in DeferredCalls \cup ReadCalls => file' = file
      /\ (file' # file /\ last'.op # "external") =>
           last'.op \in ImmediateCalls \cup {"saveDataToFile"}
    ]_vars

\* C3 amended: a deferred variant or a read leaves the backing file as it was,
\* and the backing file changes only in a save, an immediate variant, the
\* constructor (which creates a missing file) or a write by another process.
C3_DeferredLeavesFile ==
  [][ /\ last'.op \in DeferredCalls \cup ReadCalls => file' = file
      /\ file' # file => last'.op \in ImmediateCalls \cup {"saveDataToFile", "new", "external"}
    ]_vars

\* C3 witness: a deferred call has returned and the mirror holds an entry the
\* file lacks.
C3_Witness ==
  /\ Returned(DeferredCalls)
  /\ IsObjectLike(Data(last.s))
  /\ file.kind = "json"
  /\ SerDoc(Data(last.s)) # file.doc

\* the own entries of a mirror, in order
Entries(d) == d.props
IsDefined(p) == p.v # Undefined

C5_DeferredBatching ==
  batch.pc \in {"saved", "loaded"} =>
    /\ batch.deferred.file = batch.immediate.file
    /\ batch.deferred.writes = 1
    /\ batch.immediate.writes = batch.n

\* C5 witness: a batch of MaxBatch entries has been saved in one write, beside
\* an entry the file held before.
C5_Witness ==
  /\ batch.pc = "saved"
  /\ batch.n = MaxBatch
  /\ batch.immediate.writes = MaxBatch
  /\ batch.deferred.writes = 1
  /\ batch.saved.t = "object"
  /\ Len(Entries(batch.saved)) > 2

\* a value of a supported type: null, a number, a string, or an object or
\* array of such values without holes
RECURSIVE Supported(_)
Supported(v) ==
  \/ v.t \in {"null", "number", "string"}
  \/ /\ v.t \in {"object", "array"}
     /\ \A i \in 1..Len(v.props) : Supported(v.props[i].v)
     /\ v.t = "array" => Len(v.props) = v.len

\* the own values of a mirror are of supported types
SupportedValues(d) ==
  IsObjectLike(d) /\ \A i \in 1..Len(Entries(d)) : Supported(Entries(d)[i].v)

\* C6: when the values of the mirror saved are of supported types, the load
\* that follows the save succeeds and yields the same keys in the same order
\* with the same values.
C6_RoundTrip ==
  (batch.pc = "loaded" /\ SupportedValues(batch.saved)) =>
    /\ batch.loaded = "ok"
    /\ Entries(batch.deferred.data) = Entries(batch.saved)

\* C6 on keyed mappings: when the mirror saved is an object (not an array), the
\* load yields an object with the same keys in the same order with the same
\* values.
C6_RoundTripOfMapping ==
  (batch.pc = "loaded" /\ SupportedValues(batch.saved) /\ batch.saved.t = "object") =>
    /\ batch.loaded = "ok"
    /\ batch.deferred.data.t = "object"
    /\ Entries(batch.deferred.data) = Entries(batch.saved)

\* C7: a load of a backing file whose top-level value is not a keyed mapping
\* ends in a FormatError, and so does a constructor call that builds a new
\* Database on such a file (once its arguments are accepted).
C7_MalformedRejected ==
  [][ (file.kind = "json" /\ file.doc.d # "object") =>
        /\ last'.op = "fetchDataFromFile" => last'.st = "FormatError"
        /\ (last'.op = "new" /\ Len(stores') > Len(stores)
                /\ last'.st # "InvalidArgument") => last'.st = "FormatError"
    ]_vars

\* C8: a constructor call that throws for a valid path leaves no entry for
\* that path in the registry.
C8_FailedConstructionUnregistered ==
  (last.op = "new" /\ last.st # "ok" /\ last.p # "") => instances[last.p] = 0

\* C9: after makeSnapshot, called by the application or by the timer, a
\* snapshot file holds the content of the backing file.
C9_SnapshotCopiesFile ==
  last.op \in {"makeSnapshot", "timer"} =>
    /\ last.st = "ok"
    /\ \E sf \in snapFiles : sf.content = file

\* C10: has(k) is true after set(k, v) and setLocal(k, v), false after
\* delete(k), and false for every key after deleteAll().
C10_Existence ==
  /\ Returned({"set", "setLocal"}) => has(Data(last.s), last.k).v
  /\ Returned({"delete"}) => ~has(Data(last.s), last.k).v
  /\ Returned({"deleteAll"}) => \A k \in Sc.keys : ~has(Data(last.s), k).v

\* the value stored under k, the absent sentinel when k is not stored
Stored(d, k) == IF HasOwnProperty(d, k) THEN d.props[OwnIdx(d, k)].v ELSE Undefined
\* the entries under the keys other than k
Without(d, k) == LET Other(p) == p.k # k IN SelectSeq(Entries(d), Other)

\* C11: update and updateLocal leave get(k) equal to the callback's result on
\* the value stored under k (the absent sentinel when k is not stored), with
\* every other entry unchanged; the callback adds 1 to a number and gives 1
\* for the absent sentinel.
C11_UpdateHelper ==
  [][ (last'.op \in {"update", "updateLocal"} /\ last'.st = "ok") =>
        /\ get(stores'[last'.s].data, last'.k).v
             = Callback(Stored(stores[last'.s].data, last'.k))
        /\ Without(stores'[last'.s].data, last'.k) = Without(stores[last'.s].data, last'.k)
    ]_vars

\* C11 on the keys other than __proto__ of a mirror with an ordinary
\* prototype: the same statement, and the result is stored under k.
C11_UpdateOfOrdinaryKey ==
  [][ (/\ last'.op \in {"update", "updateLocal"}
       /\ last'.st = "ok"
       /\ last'.k # "__proto__"
       /\ stores[last'.s].data.proto.t = "builtin") =>
        /\ get(stores'[last'.s].data, last'.k).v
             = Callback(Stored(stores[last'.s].data, last'.k))
        /\ Stored(stores'[last'.s].data, last'.k)
             = Callback(Stored(stores[last'.s].data, last'.k))
        /\ Without(stores'[last'.s].data, last'.k) = Without(stores[last'.s].data, last'.k)
    ]_vars

WriteCalls == {"set", "setLocal", "update", "updateLocal"}
\* what array gives for the three output types on the mirror d
Keys(d) == array(d, "keys").v
Values(d) == array(d, "values").v
Pairs(d) == array(d, "null").v
\* the three outputs list the same entries in the same order
Aligned(d) ==
  /\ Len(Values(d)) = Len(Keys(d))
  /\ Len(Pairs(d)) = Len(Keys(d))
  /\ \A i \in 1..Len(Keys(d)) :
       /\ Values(d)[i] = Stored(d, Keys(d)[i])
       /\ Pairs(d)[i] = Entry(Keys(d)[i], Stored(d, Keys(d)[i]))
\* a write of key k left the keys of d in insertion order in e: a key it
\* stored for the first time is last, and the other keys are where they were
KeptInsertionOrder(d, e, k) ==
  Keys(e) = IF has(d, k).v = has(e, k).v THEN Keys(d) ELSE Append(Keys(d), k)

\* C12: on every mirror array("keys"), array("values") and array(null) list
\* the keys, the values and the {key, value} pairs of the same entries in the
\* same order, and that order is the order of first insertion: a write that
\* stores a new key puts it last, and a write to a stored key moves nothing.
C12_EnumerationOrder ==
  [][ /\ \A s \in 1..Len(stores') : IsObjectLike(stores'[s].data) => Aligned(stores'[s].data)
      /\ (last'.op \in WriteCalls /\ last'.st = "ok") =>
           KeptInsertionOrder(stores[last'.s].data, stores'[last'.s].data, last'.k)
    ]_vars

\* C12 on keys that are not array indices: the same statement.
C12_EnumerationOrderOfNames ==
  [][ /\ \A s \in 1..Len(stores') : IsObjectLike(stores'[s].data) => Aligned(stores'[s].data)
      /\ (last'.op \in WriteCalls /\ last'.st = "ok" /\ ~IsIntKey(last'.k)) =>
           KeptInsertionOrder(stores[last'.s].data, stores'[last'.s].data, last'.k)
    ]_vars

\* the step is a constructor call without forceNew for a registered path
Reacquires ==
  /\ last'.op = "new"
  /\ last'.p \in AllPaths
  /\ instances[last'.p] # 0
  /\ ~last'.o.forceNew

\* C13: a constructor call without forceNew for a registered path returns the
\* registered Database and ignores its options: the Database (its options
\* included) is as before, no directory is created and no timer is started.
C13_OptionsIgnored ==
  [][ Reacquires =>
        /\ last'.st = "ok"
        /\ last'.s = instances[last'.p]
        /\ stores'[last'.s].options = stores[last'.s].options
        /\ Len(stores') = Len(stores)
        /\ dirs' = dirs
        /\ timers' = timers
        /\ instances' = instances
    ]_vars

\* C13 witness: a constructor call that asked for snapshots has returned a
\* Database built without them; no directory and no timer exist.
C13_Witness ==
  /\ Returned({"new"})
  /\ ~last.o.forceNew
  /\ last.o.snapshots.enabled
  /\ last.o.snapshots.path # ""
  /\ last.o.snapshots.interval.t = "number"
  /\ stores[last.s].options = DefaultOptions
  /\ dirs = {}
  /\ timers = {}

\* C14: after a save or an immediate call, a backing file whose text shows a
\* layout is indented exactly when the Database was built with the indented
\* option.
C14_CompactUnlessIndented ==
  (/\ Returned(ImmediateCalls \cup {"saveDataToFile"})
   /\ file.kind = "json"
   /\ Breaks(file.doc)) =>
    (file.indent > 0 <=> stores[last.s].options.indented)

\* C15: the mirror of every Database a constructor call returned is a keyed
\* mapping: an object, not null, an array or undefined.
C15_MirrorIsMapping == \A s \in Held : Data(s).t = "object"

LoadErrors == {"IOError", "SyntaxError", "FormatError"}

\* C16: a load leaves the backing file as it was; when it fails, every mirror
\* is as before, staged edits included; when it succeeds, the mirror is what
\* the file decodes to and nothing else.
C16_LoadAllOrNothing ==
  [][ last'.op = "fetchDataFromFile" =>
        /\ file' = file
        /\ last'.st \in LoadErrors \cup {"ok"}
        /\ last'.st \in LoadErrors => stores' = stores
        /\ last'.st = "ok" =>
             /\ JsonParse(file).st = "ok"
             /\ stores' = [stores EXCEPT ![last'.s].data = JsonParse(file).v]
    ]_vars

\* C16 witness: a load has failed on a mirror that holds an entry; the file
\* has no text that could hold it.
C16_Witness ==
  /\ last.op = "fetchDataFromFile"
  /\ last.st \in LoadErrors
  /\ last.s \in Stores
  /\ IsObjectLike(Data(last.s))
  /\ Len(Entries(Data(last.s))) > 0
  /\ file.kind # "json" \/ file.doc.d \notin {"object", "array"}

\* C17: every path of AllPaths denotes the one backing file, so all
\* constructor calls without forceNew returned the same Database, and the
\* mirrors reached through any two references agree.
C17_CanonicalRegistry ==
  \A r1, r2 \in refs :
    (~r1[2] /\ ~r2[2]) => (r1[3] = r2[3] /\ Data(r1[3]) = Data(r2[3]))

SnapshotSteps == {"makeSnapshot", "timer"}

\* C18: a snapshot step, by the timer or by a call, leaves every mirror and
\* the backing file as they were and leaves the program running, so that the
\* calls that follow are processed as without it.
C18_SnapshotTransparent ==
  [][ last'.op \in SnapshotSteps =>
        /\ stores' = stores
        /\ file' = file
        /\ instances' = instances
        /\ ~crashed'
    ]_vars

\* C18, the frame alone: a snapshot step leaves every mirror, the registry and
\* the backing file as they were.
C18_SnapshotFrame ==
  [][ last'.op \in SnapshotSteps =>
        /\ stores' = stores
        /\ file' = file
        /\ instances' = instances
    ]_vars

(***************************************************************************)
(* The program with its timers scheduled fairly: while the process runs,   *)
(* the event loop keeps calling the setInterval callbacks.                 *)
(***************************************************************************)
InitLive == Init /\ scope = "registry"
TimerTick == \E t \in timers, now \in Times : TimerFires(t, now)
SpecLive == InitLive /\ [][Next]_vars /\ WF_vars(TimerTick)

\* a snapshot file is in the directory of timer t
SnapshotIn(t) == \E sf \in snapFiles : sf.name.dir = t.path

\* C19: once a Database has started its snapshot timer, a tick completes and
\* a snapshot file is in the configured directory; only a Database built
\* with snapshots enabled has a timer, and the snapshot files change only in
\* a tick or in a makeSnapshot call.
C19_SnapshotsKeepComing ==
  /\ (timers # {}) ~> (last.op = "timer" /\ last.st = "ok" /\ \A t \in timers : SnapshotIn(t))
  /\ [](\A t \in timers : stores[t.s].options.snapshots.enabled)
  /\ [][snapFiles' # snapFiles => last'.op \in SnapshotSteps]_vars

\* C19, the part without the timer's progress: only a Database built with
\* snapshots enabled has a timer, and the snapshot files change only in a
\* tick or in a makeSnapshot call.
C19_NoSnapshotsUnlessAsked ==
  /\ [](\A t \in timers : stores[t.s].options.snapshots.enabled)
  /\ [][snapFiles' # snapFiles => last'.op \in SnapshotSteps]_vars

\* C20: a constructor call without forceNew for a registered path leaves
\* every mirror, staged edits included, and the backing file as they were,
\* whatever the file holds by then.
C20_ReacquireKeepsState ==
  [][ Reacquires => (stores' = stores /\ file' = file) ]_vars

\* C20 witness: a constructor call has returned a Database whose mirror holds
\* a staged a = 2 while the backing file holds a number, which a load rejects.
C20_Witness ==
  /\ Returned({"new"})
  /\ ~last.o.forceNew
  /\ IsObjectLike(Data(last.s))
  /\ Stored(Data(last.s), "a") = Num(2)
  /\ file = NumberText
====
